---- MODULE Spec2Model ----
(***************************************************************************)
(* Victor Smart-Kill integration for Home Assistant: the polling data      *)
(* update coordinator (change detection on the list of trap ids), the      *)
(* config entry life cycle (setup, unload, reload) and the binary sensor   *)
(* entities built from the polled trap records.                            *)
(*                                                                         *)
(* One config entry is modelled.  The Victor API is the environment: each  *)
(* call of get_traps() either raises or returns a list of trap records     *)
(* with pairwise distinct ids (an id identifies one trap of the account),  *)
(* in any order.                                                           *)
(***************************************************************************)
EXTENDS Integers, Sequences, FiniteSets, TLC

\* Bounds of the model.
MaxTraps == 2
MaxKills == 1
MaxCoordinators == 2

\* const.PLATFORMS, in the order async_setup_entry iterates it (the sensor and
\* the binary sensor presentations).
PLATFORMS == <<"binary_sensor", "sensor">>

PlatformNames == {PLATFORMS[i] : i \in 1..Len(PLATFORMS)}

\* A Trap record of the API: the fields the modelled code reads.
Trap == [id : 1..MaxTraps, kills_present : 0..MaxKills]

\* What get_traps() can return: lists of traps with distinct ids.
TrapLists ==
    {l \in UNION {[1..n -> Trap] : n \in 0..MaxTraps} :
        \A i, j \in 1..Len(l) : i # j => l[i].id # l[j].id}

\* One call of VictorApi.get_traps(): an exception, or a list.
ApiResults ==
    {[ok |-> FALSE, traps |-> <<>>]} \cup {[ok |-> TRUE, traps |-> l] : l \in TrapLists}

\* DataUpdateCoordinator.data: None until the first successful refresh.
DataNone == [none |-> TRUE, traps |-> <<>>]

Data(l) == [none |-> FALSE, traps |-> l]

\* [trap.id for trap in traps]
Ids(traps) == [i \in 1..Len(traps) |-> traps[i].id]

RECURSIVE Insert(_, _)
Insert(x, s) ==
    IF s = <<>> THEN <<x>>
    ELSE IF x <= Head(s) THEN <<x>> \o s
    ELSE <<Head(s)>> \o Insert(x, Tail(s))

\* The lists compared as fetched, without sorting.
SortedMutant(s) == s

\* Python's sorted() on a list of ints.
RECURSIVE Sorted(_)
Sorted(s) == IF s = <<>> THEN <<>> ELSE Insert(Head(s), Sorted(Tail(s)))

\* `not self.data`: None and the empty list are both falsy.
NoPreviousData(data) == data.none \/ data.traps = <<>>

\* _get_traps(): returns the API's list, re-raises the API's exception.
GetTraps(api) == api

\* previous_trap_ids != current_trap_ids
TrapListChanged(previous_trap_ids, current_trap_ids) ==
    previous_trap_ids # current_trap_ids

\* The event carrying the current ids twice.
EventDataMutant(previous_trap_ids, current_trap_ids) ==
    [previous_traps |-> current_trap_ids, current_traps |-> current_trap_ids]

\* event_data of EVENT_TRAP_LIST_CHANGED
EventData(previous_trap_ids, current_trap_ids) ==
    [previous_traps |-> previous_trap_ids, current_traps |-> current_trap_ids]

\* async_update_data swallowing the API's exception and returning an empty
\* list instead of raising UpdateFailed.
AsyncUpdateDataMutant(data, api) ==
    LET got == GetTraps(api) IN
    IF ~got.ok THEN [raised |-> "none", traps |-> <<>>, fired |-> <<>>]
    ELSE IF NoPreviousData(data)
    THEN [raised |-> "none", traps |-> got.traps, fired |-> <<>>]
    ELSE LET previous_trap_ids == Sorted(Ids(data.traps))
             current_trap_ids == Sorted(Ids(got.traps))
         IN [raised |-> "none", traps |-> got.traps,
             fired |-> IF TrapListChanged(previous_trap_ids, current_trap_ids)
                       THEN <<EventData(previous_trap_ids, current_trap_ids)>>
                       ELSE <<>>]

\* async_update_data: the list returned (or UpdateFailed raised) and the
\* events fired on the bus, from self.data and the API's answer.
AsyncUpdateData(data, api) ==
    LET got == GetTraps(api) IN
    IF ~got.ok THEN [raised |-> "UpdateFailed", traps |-> <<>>, fired |-> <<>>]
    ELSE IF NoPreviousData(data)
    THEN [raised |-> "none", traps |-> got.traps, fired |-> <<>>]
    ELSE LET previous_trap_ids == Sorted(Ids(data.traps))
             current_trap_ids == Sorted(Ids(got.traps))
         IN [raised |-> "none", traps |-> got.traps,
             fired |-> IF TrapListChanged(previous_trap_ids, current_trap_ids)
                       THEN <<EventData(previous_trap_ids, current_trap_ids)>>
                       ELSE <<>>]

\* VictorSmartKillDataUpdateCoordinator.__init__
NewCoordinator(id) ==
    [id |-> id, data |-> DataNone, last_update_success |-> TRUE, platforms |-> <<>>]

\* async_refresh (the override and DataUpdateCoordinator.async_refresh it
\* calls): data is replaced on success and kept when UpdateFailed is raised.
AsyncRefresh(c, upd) ==
    IF upd.raised = "UpdateFailed"
    THEN [c EXCEPT !.last_update_success = FALSE]
    ELSE [c EXCEPT !.data = Data(upd.traps), !.last_update_success = TRUE]

\* The platforms async_setup_entry forwards: entry.options.get(platform, True)
ForwardedPlatforms(options) == SelectSeq(PLATFORMS, LAMBDA p : p \in options)

\* The unload asked of every platform, forwarded or not.
UnloadRequestsMutant(platforms) == PLATFORMS

\* [platform for platform in PLATFORMS if platform in coordinator.platforms]

UnloadRequests(platforms) ==
    SelectSeq(PLATFORMS, LAMBDA p : \E i \in 1..Len(platforms) : platforms[i] = p)

\* all(await asyncio.gather(...))
AllUnloaded(requests, outcome) == \A i \in 1..Len(requests) : outcome[requests[i]]

\* VictorSmartKillEntity.__init__: next(t for t in coordinator.data if t.id == trap_id)
EntityTrap(trap_id, traps) ==
    traps[CHOOSE i \in 1..Len(traps) :
            /\ traps[i].id = trap_id
            /\ \A j \in 1..(i - 1) : traps[j].id # trap_id]

\* VictorSmartKillBinarySensor(trap.id, coordinator)
NewBinarySensor(trap_id, c) == [trap |-> EntityTrap(trap_id, c.data.traps), coordinator |-> c.id]

\* binary_sensor.async_setup_entry: one entity per trap of coordinator.data
BinarySensors(c) == {NewBinarySensor(c.data.traps[i].id, c) : i \in 1..Len(c.data.traps)}

\* VictorSmartKillBinarySensor.is_on
IsOn(entity) == entity.trap.kills_present > 0

\* VictorSmartKillEntity.unique_id (the domain and the suffix are constant)
UniqueId(entity) == entity.trap.id

VARIABLES
    hass_data,         \* hass.data[DOMAIN]: <<>> or <<coordinator>> for the entry id
    n_coordinators,    \* coordinators constructed so far (the next one's id - 1)
    closed_clients,    \* ids of the coordinators whose API client was closed
    pending_setup,     \* platforms whose forwarded setup task has not run yet
    entities,          \* the binary sensor entities added to the host
    update_listeners,  \* entry.add_update_listener(async_reload_entry) calls in effect
    bus_listeners,     \* async_listen_once(EVENT_TRAP_LIST_CHANGED) listeners
    reload_pending,    \* async_trap_list_changed callbacks the bus has scheduled
    reload_setup,      \* async_reload_entry coroutines between unload and setup
    last               \* the last operation and what it returned or raised

vars == <<hass_data, n_coordinators, closed_clients, pending_setup, entities,
          update_listeners, bus_listeners, reload_pending, reload_setup, last>>

Registered == Len(hass_data) = 1

\* The record of an operation: what it returned or raised (result), whether
\* the API answered (api_ok) and what async_update_data raised and fired, the
\* coordinator's data before the fetch (prev_none: it was None; prev_ids: the
\* ids in it), and the platforms async_unload_entry asked to unload with
\* those that did (requests, unloaded_ok).
NoOp ==
    [op |-> "none", result |-> "none", api_ok |-> FALSE, raised |-> "none",
     fired |-> <<>>, prev_none |-> TRUE, prev_ids |-> {}, requests |-> <<>>,
     unloaded_ok |-> {}]

Init ==
    /\ hass_data = <<>>
    /\ n_coordinators = 0
    /\ closed_clients = {}
    /\ pending_setup = {}
    /\ entities = {}
    /\ update_listeners = 0
    /\ bus_listeners = 0
    /\ reload_pending = 0
    /\ reload_setup = 0
    /\ last = NoOp

\* hass.bus.async_fire: every listen_once listener of the event is scheduled
\* and removed.
ListenersAfterFire(fired) == IF fired = <<>> THEN bus_listeners ELSE 0

ScheduledAfterFire(fired) ==
    IF fired = <<>> THEN reload_pending ELSE reload_pending + bus_listeners

\* The setup going on whatever the first refresh did.
SetupNotReadyMutant(c) == FALSE

\* `if not coordinator.last_update_success: raise ConfigEntryNotReady`

SetupNotReady(c) == ~c.last_update_success

\* The body of async_setup_entry.
SetupEntry(api, options) ==
    LET fresh == NewCoordinator(n_coordinators + 1)
        upd == AsyncUpdateData(fresh.data, api)
        c == AsyncRefresh(fresh, upd)
        done == [NoOp EXCEPT !.op = "setup", !.api_ok = api.ok, !.raised = upd.raised,
                             !.fired = upd.fired]
    IN /\ n_coordinators' = n_coordinators + 1
       /\ reload_pending' = ScheduledAfterFire(upd.fired)
       /\ IF SetupNotReady(c)
          THEN /\ last' = [done EXCEPT !.result = "ConfigEntryNotReady"]
               /\ bus_listeners' = ListenersAfterFire(upd.fired)
               /\ UNCHANGED <<hass_data, closed_clients, pending_setup, entities,
                              update_listeners>>
          ELSE /\ hass_data' = <<[c EXCEPT !.platforms = ForwardedPlatforms(options)]>>
               /\ pending_setup' = pending_setup \cup
                    {ForwardedPlatforms(options)[i] :
                        i \in 1..Len(ForwardedPlatforms(options))}
               /\ update_listeners' = update_listeners + 1
               /\ bus_listeners' = ListenersAfterFire(upd.fired) + 1
               /\ last' = [done EXCEPT !.result = "True"]
               /\ UNCHANGED <<closed_clients, entities>>

\* async_setup_entry, called by the host for an entry that is not loaded.
AsyncSetupEntry(results) ==
    /\ ~Registered
    /\ reload_setup = 0
    /\ n_coordinators < MaxCoordinators
    /\ \E api \in results, options \in SUBSET PlatformNames : SetupEntry(api, options)
    /\ UNCHANGED reload_setup

\* The task hass.async_create_task(async_forward_entry_setup(entry, platform)):
\* the platform's async_setup_entry reads hass.data[DOMAIN][entry_id] (KeyError
\* when the entry was unloaded meanwhile) and adds its entities; the host
\* rejects an entity whose unique id is already registered.
PlatformSetup(platform) ==
    /\ platform \in pending_setup
    /\ pending_setup' = pending_setup \ {platform}
    /\ entities' =
         IF Registered /\ platform = "binary_sensor"
         THEN entities \cup
              {e \in BinarySensors(hass_data[1]) :
                  \A old \in entities : UniqueId(old) # UniqueId(e)}
         ELSE entities
    /\ last' = [NoOp EXCEPT !.op = "platform_setup"]
    /\ UNCHANGED <<hass_data, n_coordinators, closed_clients, update_listeners,
                   bus_listeners, reload_pending, reload_setup>>

\* A refresh of the registered coordinator (the scheduled poll or a request).
Refresh(results) ==
    /\ Registered
    /\ \E api \in results :
         LET c == hass_data[1]
             upd == AsyncUpdateData(c.data, api)
         IN /\ hass_data' = <<AsyncRefresh(c, upd)>>
            /\ bus_listeners' = ListenersAfterFire(upd.fired)
            /\ reload_pending' = ScheduledAfterFire(upd.fired)
            /\ last' = [NoOp EXCEPT !.op = "refresh", !.result = upd.raised,
                                    !.api_ok = api.ok, !.raised = upd.raised,
                                    !.fired = upd.fired,
                                    !.prev_none = c.data.none,
                                    !.prev_ids = {c.data.traps[i].id : i \in 1..Len(c.data.traps)}]
    /\ UNCHANGED <<n_coordinators, closed_clients, pending_setup, entities,
                   update_listeners, reload_setup>>

\* The body of async_unload_entry for a registered entry; outcome[p] is what
\* async_forward_entry_unload(entry, p) returns.
UnloadEntry(outcome) ==
    LET coordinator == hass_data[1]
        requests == UnloadRequests(coordinator.platforms)
        unloaded == AllUnloaded(requests, outcome)
    IN /\ entities' =
            IF (\E i \in 1..Len(requests) : requests[i] = "binary_sensor")
               /\ outcome["binary_sensor"]
            THEN {} ELSE entities
       /\ IF unloaded
          THEN /\ hass_data' = <<>>
               /\ closed_clients' = closed_clients \cup {coordinator.id}
          ELSE UNCHANGED <<hass_data, closed_clients>>
       /\ last' = [NoOp EXCEPT !.op = "unload",
                               !.result = IF unloaded THEN "True" ELSE "False",
                               !.requests = requests,
                               !.unloaded_ok =
                                   {requests[i] : i \in {j \in 1..Len(requests) :
                                                            outcome[requests[j]]}}]
       /\ UNCHANGED <<n_coordinators, pending_setup, update_listeners, bus_listeners>>

\* async_unload_entry, called by the host for a loaded entry.
AsyncUnloadEntry ==
    /\ Registered
    /\ reload_setup = 0
    /\ \E outcome \in [PlatformNames -> BOOLEAN] : UnloadEntry(outcome)
    /\ UNCHANGED <<reload_setup, reload_pending>>

\* async_reload_entry up to its second await: async_unload_entry, which
\* raises KeyError (ending the reload) when the entry is not registered.
ReloadUnload(outcome) ==
    /\ n_coordinators + reload_setup < MaxCoordinators
    /\ IF Registered
       THEN /\ UnloadEntry(outcome)
            /\ reload_setup' = reload_setup + 1
       ELSE /\ last' = [NoOp EXCEPT !.op = "unload", !.result = "KeyError"]
            /\ UNCHANGED <<hass_data, n_coordinators, closed_clients, pending_setup,
                           entities, update_listeners, bus_listeners, reload_setup>>

\* The update listener: the entry was updated, the host calls async_reload_entry.
UpdateListenerReload ==
    /\ update_listeners > 0
    /\ \E outcome \in [PlatformNames -> BOOLEAN] : ReloadUnload(outcome)
    /\ UNCHANGED reload_pending

\* async_trap_list_changed: the bus runs one scheduled listener, which calls
\* async_reload_entry.
TrapListChangedReload ==
    /\ reload_pending > 0
    /\ reload_pending' = reload_pending - 1
    /\ \E outcome \in [PlatformNames -> BOOLEAN] : ReloadUnload(outcome)

\* async_reload_entry after its unload: async_setup_entry.
ReloadSetup(results) ==
    /\ reload_setup > 0
    /\ reload_setup' = reload_setup - 1
    /\ \E api \in results, options \in SUBSET PlatformNames : SetupEntry(api, options)

\* The whole integration: every operation, every answer of the API.
Next ==
    \/ AsyncSetupEntry(ApiResults)
    \/ \E platform \in PlatformNames : PlatformSetup(platform)
    \/ Refresh(ApiResults)
    \/ AsyncUnloadEntry
    \/ UpdateListenerReload
    \/ TrapListChangedReload
    \/ ReloadSetup(ApiResults)

Spec == Init /\ [][Next]_vars

\* The polling of a loaded entry: setup, the platform tasks and the refreshes,
\* with every answer of the API; the entry is never unloaded or reloaded.
PollNext ==
    \/ AsyncSetupEntry(ApiResults)
    \/ \E platform \in PlatformNames : PlatformSetup(platform)
    \/ Refresh(ApiResults)

PollSpec == Init /\ [][PollNext]_vars

\* The answers of the API that differ in what the change detection reads:
\* the failure and every list, in every order, of traps without kills.
ChangeApiResults ==
    {r \in ApiResults : \A i \in 1..Len(r.traps) : r.traps[i].kills_present = 0}

\* The polling of a loaded entry with those answers.
ChangeNext ==
    \/ AsyncSetupEntry(ChangeApiResults)
    \/ \E platform \in PlatformNames : PlatformSetup(platform)
    \/ Refresh(ChangeApiResults)

ChangeSpec == Init /\ [][ChangeNext]_vars

\* The answers of the API that differ in what the life cycle reads (whether
\* the refresh succeeds and whether the set of ids changes): the failure and
\* the lists of the traps 1..n without kills, n up to MaxTraps.
LifecycleApiResults ==
    {r \in ChangeApiResults : Ids(r.traps) = [i \in 1..Len(r.traps) |-> i]}

\* The life cycle of the entry: every operation, with those answers.
LifecycleNext ==
    \/ AsyncSetupEntry(LifecycleApiResults)
    \/ \E platform \in PlatformNames : PlatformSetup(platform)
    \/ Refresh(LifecycleApiResults)
    \/ AsyncUnloadEntry
    \/ UpdateListenerReload
    \/ TrapListChangedReload
    \/ ReloadSetup(LifecycleApiResults)

LifecycleSpec == Init /\ [][LifecycleNext]_vars

(***************************************************************************)
(* The properties.                                                         *)
(***************************************************************************)

\* The set of trap ids of a list of traps.
IdSet(traps) == {traps[i].id : i \in 1..Len(traps)}

\* The elements of a sequence.
Elements(s) == {s[i] : i \in 1..Len(s)}

\* A sequence of ints in strictly ascending order.
IsAscending(s) == \A i \in 1..(Len(s) - 1) : s[i] < s[i + 1]

\* The trap list the registered coordinator holds.
HeldTraps == hass_data[1].data.traps

\* C1: whenever a fetch succeeds and the set of trap ids it returns differs
\* from the set of trap ids of the previous fetch result (any list, the empty
\* one included), the fetch fires EVENT_TRAP_LIST_CHANGED.
C1_ChangeAlwaysFires ==
    (/\ last.op = "refresh"
     /\ last.api_ok
     /\ ~last.prev_none
     /\ last.prev_ids # IdSet(HeldTraps))
    => last.fired # <<>>

\* C2: a fetch (the first one of a coordinator, in async_setup_entry, or a
\* later refresh) fires EVENT_TRAP_LIST_CHANGED only if it succeeded, there
\* was a previous fetch result, and the set of trap ids fetched differs from
\* the set of trap ids of that previous result.
C2_NoSpuriousEvent ==
    (last.op \in {"refresh", "setup"} /\ last.fired # <<>>)
    => /\ last.op = "refresh"
       /\ last.api_ok
       /\ last.raised = "none"
       /\ ~last.prev_none
       /\ last.prev_ids # IdSet(HeldTraps)

\* A refresh has fired the event.
C2_Witness == last.op = "refresh" /\ last.fired # <<>>

\* C3: every event fired carries in previous_traps the ids of the data held
\* before the fetch and in current_traps the ids of the list fetched, each in
\* ascending order, and the two differ.
C3_EventPayload ==
    last.fired # <<>>
    => /\ Len(last.fired) = 1
       /\ LET event == last.fired[1] IN
          /\ IsAscending(event.previous_traps)
          /\ Elements(event.previous_traps) = last.prev_ids
          /\ IsAscending(event.current_traps)
          /\ Elements(event.current_traps) = IdSet(HeldTraps)
          /\ Len(event.current_traps) = Len(HeldTraps)
          /\ event.previous_traps # event.current_traps

\* An event whose previous list had to be sorted: the coordinator held several
\* traps and fetched a non-empty list.
C3_Witness ==
    /\ last.fired # <<>>
    /\ Len(last.fired[1].previous_traps) > 1
    /\ Len(last.fired[1].current_traps) > 0

\* C4: while the entry is loaded, an entity of the registered coordinator
\* whose trap id is in the coordinator's current data presents that record's
\* values: is_on is kills_present > 0 of the current record.
C4_EntitiesPresentLatestFetch ==
    Registered =>
        \A entity \in entities :
            entity.coordinator = hass_data[1].id =>
                \A i \in 1..Len(HeldTraps) :
                    HeldTraps[i].id = entity.trap.id
                    => (IsOn(entity) <=> HeldTraps[i].kills_present > 0)

\* C5: a fetch in which the API raises makes async_update_data raise
\* UpdateFailed and fire no event (no listener is scheduled or removed), and
\* a refresh of the registered coordinator leaves the data it holds unchanged.
C5_FailedFetch ==
    [][(last'.op \in {"refresh", "setup"} /\ ~last'.api_ok)
       => /\ last'.raised = "UpdateFailed"
          /\ last'.fired = <<>>
          /\ reload_pending' = reload_pending
          /\ last'.op = "refresh"
             => /\ Registered'
                /\ hass_data'[1].data = hass_data[1].data
                /\ ~hass_data'[1].last_update_success
                /\ bus_listeners' = bus_listeners]_vars

\* A refresh failed while the coordinator held a non-empty trap list.
C5_Witness ==
    /\ last.op = "refresh"
    /\ ~last.api_ok
    /\ last.raised = "UpdateFailed"
    /\ Registered
    /\ HeldTraps # <<>>

\* C6: async_setup_entry raises ConfigEntryNotReady exactly when its refresh
\* failed, and then registers no coordinator, forwards no platform and adds no
\* listener; otherwise it returns True having registered the new coordinator,
\* forwarded the platforms of coordinator.platforms and added both listeners.
C6_SetupAtomic ==
    [][last'.op = "setup"
       => IF ~last'.api_ok
          THEN /\ last'.result = "ConfigEntryNotReady"
               /\ hass_data' = hass_data
               /\ pending_setup' = pending_setup
               /\ update_listeners' = update_listeners
               /\ bus_listeners' = bus_listeners
          ELSE /\ last'.result = "True"
               /\ Registered'
               /\ hass_data'[1].id = n_coordinators'
               /\ n_coordinators' = n_coordinators + 1
               /\ ~hass_data'[1].data.none
               /\ pending_setup' = pending_setup \cup Elements(hass_data'[1].platforms)
               /\ update_listeners' = update_listeners + 1
               /\ bus_listeners' = bus_listeners + 1]_vars

\* A setup (of a reload) failed while the previous coordinator was still
\* registered.
C6_Witness ==
    /\ last.op = "setup"
    /\ last.result = "ConfigEntryNotReady"
    /\ Registered
    /\ update_listeners > 0

\* C7: async_unload_entry of a registered entry asks to unload exactly the
\* platforms of coordinator.platforms, once each, and returns True iff all of
\* them unloaded; then the coordinator is removed and its client closed,
\* otherwise it stays registered and its client is not closed.
C7_Unload ==
    [][(last'.op = "unload" /\ Registered)
       => /\ Elements(last'.requests) = Elements(hass_data[1].platforms)
          /\ Len(last'.requests) = Cardinality(Elements(last'.requests))
          /\ last'.result \in {"True", "False"}
          /\ last'.result = "True" <=> last'.unloaded_ok = Elements(last'.requests)
          /\ IF last'.result = "True"
             THEN /\ ~Registered'
                  /\ hass_data[1].id \in closed_clients'
             ELSE /\ hass_data' = hass_data
                  /\ hass_data[1].id \notin closed_clients']_vars

\* An unload of two platforms of which one unloaded and one did not.
C7_Witness ==
    /\ last.op = "unload"
    /\ last.result = "False"
    /\ Len(last.requests) > 1
    /\ last.unloaded_ok # {}
    /\ Registered

====
